---- MODULE Spec2Model ----
(***************************************************************************)
(* HotSeat: the interview orchestrator of App.tsx, the scoring rules of    *)
(* game-rules.tsx, the client service of services/geminiService.ts and the *)
(* /api/init and /api/chat handlers of server.js.                          *)
(*                                                                         *)
(* Money is counted in cents (100.00 is 10000). Inside scoreAnswer the     *)
(* unrounded values are counted in 1/100000 (0.6 is 60000) so that the     *)
(* toFixed(2) rounding is a real conversion. Math.random() is a draw in    *)
(* thousandths (0 .. 999).                                                 *)
(***************************************************************************)
EXTENDS Integers, Sequences, FiniteSets, TLC

VARIABLES
    phase,                \* App.tsx:48   useState<GamePhase>
    messages,             \* App.tsx:51   the feed, one tag per posted line
    isLoading,            \* App.tsx:52
    answerOptions,        \* App.tsx:55   AnswerOptions | null
    isAnswerLocked,       \* App.tsx:57
    interviewState,       \* App.tsx:59   InterviewState
    lastQuestionRef,      \* App.tsx:73   the question on air (its number)
    isIntroTutorialActive,\* App.tsx:146
    introTutorialRanRef,  \* App.tsx:147
    introTimer,           \* App.tsx:410  the 3 s timer of startInterview is pending
    openings,             \* /api/init requests sent since the profile was submitted
    company,              \* App.tsx:49   the profile of the setup form: which fields are filled
    tutorialPlayed,       \* App.tsx:320  localStorage hotseat_intro_tutorial_played
    sessionId,            \* geminiService.ts:4  (0 is null)
    inflight,             \* requests sent and not yet resumed by the client
    sessions,             \* server.js:19  the session map's keys
    issued,               \* server.js:179 how many session ids were minted
    hasKey,               \* server.js:13  GEMINI_API_KEY is set
    history,              \* the deltas committed since the state was seeded
    sent,                 \* /api/chat requests sent since the page loaded
    clicks,               \* handleSelectAnswer calls since the pending request was sent
    loads,                \* page loads so far
    lastEvent,            \* the handler that last changed the state
    lastSnap,             \* what the last resumed request saw when it was sent
    twin,                 \* a second run's InterviewState and last delta (SpecPair)
    probe                 \* the last call of a pure function: its input and its result

vars == << phase, messages, isLoading, answerOptions, isAnswerLocked,
           interviewState, lastQuestionRef, isIntroTutorialActive,
           introTutorialRanRef, introTimer, tutorialPlayed, sessionId, company,
           openings,
           inflight, sessions, issued, hasKey, history, sent, clicks, loads,
           lastEvent, lastSnap, twin, probe >>

(***************************************************************************)
(* Bounds of the model.                                                    *)
(***************************************************************************)
MaxClicks == 2      \* handleSelectAnswer calls counted per turn
MaxInFlight == 2    \* requests that may be pending at once
MaxLoads == 2       \* page loads (Replay reloads the page)
MaxPairTurns == 3   \* turns resolved side by side (SpecPair)
MaxCalls == 4       \* scoreAnswer calls in a row (SpecScore)
MaxWords == 40      \* words of a raw option text (SpecNorm)
MaxSessions == 2    \* sessions the server creates (SpecServer)
MaxScored == 600      \* |scored.delta| handed to the clamps, in cents

(***************************************************************************)
(* Program constants.                                                      *)
(***************************************************************************)
STARTING_STOCK_PRICE == 10000
FAIL_STOCK_PRICE == 0
TOTAL_QUESTIONS == 4

Draws == {0, 999}                      \* Math.random() in thousandths
Texts == {"plain", "metrics"}          \* option texts, by what hasMetrics sees
Keys == {"good", "evasive"}            \* the two answer buttons
Categories == {"good", "evasive", "bad"}

Min(a, b) == IF a <= b THEN a ELSE b
Max(a, b) == IF a >= b THEN a ELSE b

NoOptions == [present |-> FALSE, good |-> "", evasive |-> ""]
OptionSets == { [present |-> TRUE, good |-> "plain", evasive |-> t] : t \in Texts }
OptionText(options, key) == IF key = "good" THEN options.good ELSE options.evasive

\* the profile of an empty form: TRUE for a field that is filled in
NoCompany == [name |-> FALSE, mission |-> FALSE]

NoWorst == [set |-> FALSE, userText |-> "", questionText |-> 0,
            category |-> "", delta |-> 0]

(***************************************************************************)
(* game-rules.tsx                                                          *)
(***************************************************************************)
\* min + Math.random() * (max - min), in 1/100000
rand(min, max, u) == min + (u * (max - min)) \div 1000

\* Number(x.toFixed(2)): 1/100000 to cents, half away from zero
Round2(v) == IF v >= 0 THEN (v + 500) \div 1000 ELSE 0 - ((500 - v) \div 1000)

hasMetrics(text) == text = "metrics"

\* faulty variant: the streak bonus already applies to the second evasive pick
scoreAnswer_EarlyBonus(ctx, u) ==
    IF ctx.isContradiction
    THEN [delta |-> -150, nextEvasiveStreak |-> 0]
    ELSE LET penaltyMultiplier == IF ctx.timeLeftMs <= 15000 THEN 11 ELSE 10
             streakPenaltyBonus == IF ctx.evasiveStreakBefore >= 1 THEN 30000 ELSE 0
         IN  IF ctx.category = "good"
             THEN [delta |-> Round2(rand(60000, 110000, u)),
                   nextEvasiveStreak |-> 0]
             ELSE IF ctx.category = "evasive"
             THEN LET base == rand(-80000, -30000, u)
                      d0 == ((base - streakPenaltyBonus) * penaltyMultiplier) \div 10
                      d1 == IF hasMetrics(ctx.answerText) THEN d0 + 80000 ELSE d0
                  IN  [delta |-> Round2(d1),
                       nextEvasiveStreak |-> ctx.evasiveStreakBefore + 1]
             ELSE LET base == rand(-200000, -120000, u)
                      d0 == ((base - streakPenaltyBonus) * penaltyMultiplier) \div 10
                  IN  [delta |-> Round2(d0), nextEvasiveStreak |-> 0]

scoreAnswer(ctx, u) ==
    IF ctx.isContradiction
    THEN [delta |-> -150, nextEvasiveStreak |-> 0]
    ELSE LET inFinal15s == ctx.timeLeftMs <= 15000
             penaltyMultiplier == IF inFinal15s THEN 11 ELSE 10
             streakPenaltyBonus == IF ctx.evasiveStreakBefore >= 2 THEN 30000 ELSE 0
         IN  IF ctx.category = "good"
             THEN [delta |-> Round2(rand(60000, 110000, u)),
                   nextEvasiveStreak |-> 0]
             ELSE IF ctx.category = "evasive"
             THEN LET base == rand(-80000, -30000, u)
                      d0 == ((base - streakPenaltyBonus) * penaltyMultiplier) \div 10
                      d1 == IF hasMetrics(ctx.answerText) THEN d0 + 80000 ELSE d0
                  IN  [delta |-> Round2(d1),
                       nextEvasiveStreak |-> ctx.evasiveStreakBefore + 1]
             ELSE LET base == rand(-200000, -120000, u)
                      d0 == ((base - streakPenaltyBonus) * penaltyMultiplier) \div 10
                  IN  [delta |-> Round2(d0), nextEvasiveStreak |-> 0]

(***************************************************************************)
(* App.tsx: pure helpers                                                   *)
(***************************************************************************)
\* faulty variant: nothing is clamped
clamp_Off(n, min, max) == n

clamp(n, min, max) == Max(min, Min(max, n))

optionKeyToScoreCategory(key) == IF key = "good" THEN "good" ELSE "evasive"

\* faulty variant: the seeded state already awaits an answer to question 1
SeedState_Armed ==
    [stockPrice |-> STARTING_STOCK_PRICE, lowestPrice |-> STARTING_STOCK_PRICE,
     awaitingAnswer |-> TRUE, evasiveStreak |-> 0, audienceSentiment |-> 50,
     outcome |-> "none", worstAnswer |-> NoWorst, questionCount |-> 1,
     maxQuestions |-> TOTAL_QUESTIONS]

\* the state startInterview sets
SeedState ==
    [stockPrice |-> STARTING_STOCK_PRICE, lowestPrice |-> STARTING_STOCK_PRICE,
     awaitingAnswer |-> FALSE, evasiveStreak |-> 0, audienceSentiment |-> 50,
     outcome |-> "none", worstAnswer |-> NoWorst, questionCount |-> 0,
     maxQuestions |-> TOTAL_QUESTIONS]

\* faulty variant: lowestPrice is never lowered
applyDeltaAndCheck_StaleMin(prev, delta, worst) ==
    LET clamped == Max(0, prev.stockPrice + delta)
        worstAnswer ==
            IF worst.set /\ (~prev.worstAnswer.set \/ worst.delta > prev.worstAnswer.delta)
            THEN worst ELSE prev.worstAnswer
    IN  [prev EXCEPT !.stockPrice = clamped, !.worstAnswer = worstAnswer]

\* faulty variant: lowestPrice follows the price instead of its minimum
applyDeltaAndCheck_NoMin(prev, delta, worst) ==
    LET clamped == Max(0, prev.stockPrice + delta)
        worstAnswer ==
            IF worst.set /\ (~prev.worstAnswer.set \/ worst.delta > prev.worstAnswer.delta)
            THEN worst ELSE prev.worstAnswer
    IN  [prev EXCEPT !.stockPrice = clamped, !.lowestPrice = clamped,
                     !.worstAnswer = worstAnswer]

\* the setInterviewState updater of applyDeltaAndCheck
applyDeltaAndCheck(prev, delta, worst) ==
    LET nextPrice == prev.stockPrice + delta
        clamped == Max(0, nextPrice)
        lowestPrice == Min(prev.lowestPrice, clamped)
        worstAnswer ==
            IF worst.set /\ (~prev.worstAnswer.set \/ worst.delta > prev.worstAnswer.delta)
            THEN worst ELSE prev.worstAnswer
        s1 == IF delta > 0 THEN prev.audienceSentiment + 6 ELSE prev.audienceSentiment
        s2 == IF delta < 0 THEN s1 - 8 ELSE s1
        audienceSentiment == Max(0, Min(100, s2))
    IN  [prev EXCEPT !.stockPrice = clamped, !.lowestPrice = lowestPrice,
                     !.audienceSentiment = audienceSentiment,
                     !.worstAnswer = worstAnswer]

\* faulty variant: the scoring bucket is taken from the reply's echo
ScoreCategory_FromReply(selectedKey, response) == response.category

\* the category the scoring context is built with (App.tsx:422, 428)
ScoreCategory(selectedKey, response) == optionKeyToScoreCategory(selectedKey)

\* faulty variant: the context forgets the stored streak
ScoreCtx_NoStreak(selectedKey, selectedText, streakBefore, response) ==
    [category |-> optionKeyToScoreCategory(selectedKey),
     isContradiction |-> response.isContradiction,
     evasiveStreakBefore |-> 0,
     timeLeftMs |-> 60000,
     answerText |-> selectedText]

\* ctx of resolveSelectedAnswer
ScoreCtx(selectedKey, selectedText, streakBefore, response) ==
    [category |-> ScoreCategory(selectedKey, response),
     isContradiction |-> response.isContradiction,
     evasiveStreakBefore |-> streakBefore,
     timeLeftMs |-> 60000,
     answerText |-> selectedText]

\* faulty variant: the per-key clamps are missing
FinalDelta_NoKeyClamp(selectedKey, scoredDelta, response) ==
    LET d0 == clamp(scoredDelta, -500, 500)
    IN  IF response.isContradiction THEN Min(d0, -80) ELSE d0

\* faulty variant: the contradiction floor is applied before the per-key clamps
FinalDelta_FloorFirst(selectedKey, scoredDelta, response) ==
    LET d0 == clamp(scoredDelta, -500, 500)
        d1 == IF response.isContradiction THEN Min(d0, -80) ELSE d0
        d2 == IF selectedKey = "good" THEN clamp(d1, 80, 350) ELSE d1
    IN  IF selectedKey = "evasive" THEN clamp(d2, -350, -10) ELSE d2

\* finalDelta of resolveSelectedAnswer, from scored.delta
FinalDelta(selectedKey, scoredDelta, response) ==
    LET d0 == clamp(scoredDelta, -500, 500)
        d1 == IF selectedKey = "good" THEN clamp(d0, 80, 350) ELSE d0
        d2 == IF selectedKey = "evasive" THEN clamp(d1, -350, -10) ELSE d1
    IN  IF response.isContradiction THEN Min(d2, -80) ELSE d2

\* faulty variant: one turn too many
TurnsExhausted_OffByOne(prev) == prev.questionCount > prev.maxQuestions

\* the turn-count updater of resolveSelectedAnswer: TRUE when the interview ends
TurnsExhausted(prev) == prev.questionCount >= prev.maxQuestions

\* faulty variant: the exhausted interview is marked a failure
AdvanceTurn_Fails(prev) ==
    IF prev.outcome = "failure" THEN prev
    ELSE IF TurnsExhausted(prev)
    THEN [prev EXCEPT !.awaitingAnswer = FALSE, !.outcome = "failure"]
    ELSE [prev EXCEPT !.awaitingAnswer = TRUE,
                      !.questionCount = prev.questionCount + 1]

\* faulty variant: an answered turn skips a question
AdvanceTurn_ByTwo(prev) ==
    IF prev.outcome = "failure" THEN prev
    ELSE IF TurnsExhausted(prev)
    THEN [prev EXCEPT !.awaitingAnswer = FALSE, !.outcome = "success"]
    ELSE [prev EXCEPT !.awaitingAnswer = TRUE,
                      !.questionCount = prev.questionCount + 2]

\* the turn-count updater of resolveSelectedAnswer
AdvanceTurn(prev) ==
    IF prev.outcome = "failure" THEN prev
    ELSE IF TurnsExhausted(prev)
    THEN [prev EXCEPT !.awaitingAnswer = FALSE, !.outcome = "success"]
    ELSE [prev EXCEPT !.awaitingAnswer = TRUE,
                      !.questionCount = prev.questionCount + 1]

\* InterviewState after the try block of resolveSelectedAnswer has run
Committed(prev, selectedKey, selectedText, streakBefore, question, response, u) ==
    LET scored == scoreAnswer(ScoreCtx(selectedKey, selectedText, streakBefore, response), u)
        finalDelta == FinalDelta(selectedKey, scored.delta, response)
        worst == IF finalDelta < 0
                 THEN [set |-> TRUE, userText |-> selectedText,
                       questionText |-> question,
                       category |-> ScoreCategory(selectedKey, response),
                       delta |-> finalDelta]
                 ELSE NoWorst
        s1 == [prev EXCEPT !.evasiveStreak = scored.nextEvasiveStreak]
        s2 == applyDeltaAndCheck(s1, finalDelta, worst)
    IN  [delta |-> finalDelta, state |-> AdvanceTurn(s2)]

\* faulty variant: awaitingAnswer is left set when the request goes out
Locking_Forgotten(prev) == prev

\* InterviewState after the first updater of resolveSelectedAnswer has run
Locking(prev) == [prev EXCEPT !.awaitingAnswer = FALSE]

\* faulty variant: a failed turn costs a penalty
Recovered_Penalised(prev) ==
    [prev EXCEPT !.awaitingAnswer = TRUE,
                 !.stockPrice = Max(0, prev.stockPrice - 80)]

\* faulty variant: the failed turn is counted
Recovered_Advances(prev) ==
    [prev EXCEPT !.awaitingAnswer = TRUE, !.questionCount = prev.questionCount + 1]

\* InterviewState after the catch block of resolveSelectedAnswer has run
Recovered(prev) == [prev EXCEPT !.awaitingAnswer = TRUE]

\* faulty variant: the phase and awaitingAnswer checks are missing
CanSelect_AnyPhase ==
    /\ ~isIntroTutorialActive
    /\ ~(isLoading \/ isAnswerLocked)
    /\ answerOptions.present

\* faulty variant: the lock, loading and awaitingAnswer checks are missing
CanSelect_NoLock ==
    /\ phase = "INTERVIEW"
    /\ ~isIntroTutorialActive
    /\ answerOptions.present

\* the early returns of handleSelectAnswer
CanSelect ==
    /\ phase = "INTERVIEW"
    /\ ~isIntroTutorialActive
    /\ ~(isLoading \/ isAnswerLocked)
    /\ interviewState.awaitingAnswer
    /\ answerOptions.present


(***************************************************************************)
(* services/geminiService.ts                                               *)
(***************************************************************************)
\* the JSON body sendUserAnswer posts to /api/chat
ChatBody(sid, answer, selectedKey) ==
    [sessionId |-> sid, message |-> answer, selectedKey |-> "absent"]

isNewShape(raw) ==
    /\ raw.text \in {"string", "empty"}
    /\ raw.category \in {"good", "evasive", "bad"}
    /\ raw.isContradiction \in {"true", "false"}

\* faulty variant: the legacy thresholds are exclusive
normaliseResponse_Exclusive(raw) ==
    IF isNewShape(raw)
    THEN [text |-> raw.text, category |-> raw.category,
          isContradiction |-> (raw.isContradiction = "true"),
          sentiment |-> raw.sentiment, reason |-> raw.reason]
    ELSE LET stockChange == IF raw.hasStockChange THEN raw.stockChange ELSE 0
             category ==
                 IF stockChange > 50 \/ raw.sentiment = "positive" THEN "good"
                 ELSE IF stockChange < -250 \/ raw.sentiment = "negative" THEN "bad"
                 ELSE "evasive"
         IN  [text |-> IF raw.text \in {"string", "empty"} THEN raw.text ELSE "empty",
              category |-> category, isContradiction |-> FALSE,
              sentiment |-> raw.sentiment,
              reason |-> "Normalised from legacy Gemini response"]

\* raw is the parsed reply; a field that is missing or of the wrong type is
\* "absent", text is "string" (non-empty), "empty" or "absent"
normaliseResponse(raw) ==
    IF isNewShape(raw)
    THEN [text |-> raw.text, category |-> raw.category,
          isContradiction |-> (raw.isContradiction = "true"),
          sentiment |-> raw.sentiment, reason |-> raw.reason]
    ELSE LET stockChange == IF raw.hasStockChange THEN raw.stockChange ELSE 0
             category ==
                 IF stockChange >= 50 \/ raw.sentiment = "positive" THEN "good"
                 ELSE IF stockChange <= -250 \/ raw.sentiment = "negative" THEN "bad"
                 ELSE "evasive"
         IN  [text |-> IF raw.text \in {"string", "empty"} THEN raw.text ELSE "empty",
              category |-> category, isContradiction |-> FALSE,
              sentiment |-> raw.sentiment,
              reason |-> "Normalised from legacy Gemini response"]

\* the options the App reads from the value the service resolves with:
\* GeminiResponse.options is optional
ServiceOptions(options) == {options, NoOptions}

(***************************************************************************)
(* server.js                                                               *)
(***************************************************************************)
GeminiOutcomes == {"json", "badjson", "throws"}

selectionToCategory(selectionKey) ==
    IF selectionKey = "evasive" THEN "evasive" ELSE "good"

\* sel of POST /api/chat
ChatSel(selectedKey) ==
    IF selectedKey = "good" \/ selectedKey = "evasive" THEN selectedKey ELSE "good"

\* faulty variant: a session that is not in the map is not looked up
ChatStatus_NoLookup(body, gem) ==
    IF ~hasKey THEN 500
    ELSE IF body.sessionId = 0 THEN 400
    ELSE IF body.message = "" THEN 400
    ELSE IF gem = "throws" THEN 500
    ELSE IF gem = "badjson" THEN 502
    ELSE 200

\* the HTTP status POST /api/chat answers with
ChatStatus(body, gem) ==
    IF ~hasKey THEN 500
    ELSE IF body.sessionId = 0 THEN 400
    ELSE IF body.sessionId \notin sessions THEN 404
    ELSE IF body.message = "" THEN 400
    ELSE IF gem = "throws" THEN 500
    ELSE IF gem = "badjson" THEN 502
    ELSE 200

\* POST /api/chat gets as far as chatSession.sendMessage
ChatAsksGemini(body) == ChatStatus(body, "json") = 200

\* the HTTP status POST /api/init answers with
InitStatus(body, gem) ==
    IF ~hasKey THEN 500
    ELSE IF ~body.company.name \/ ~body.company.mission THEN 400
    ELSE IF gem = "throws" THEN 500
    ELSE IF gem = "badjson" THEN 502
    ELSE 200

\* faulty variant: the chat session is never put in the map
InitCreatesSession_Never(body) == FALSE

\* POST /api/init gets as far as sessions.set and chatSession.sendMessage
InitCreatesSession(body) == InitStatus(body, "json") = 200

NoPayload ==
    [sessionId |-> 0, text |-> "absent", category |-> "absent",
     isContradiction |-> "absent", sentiment |-> "absent", reason |-> "absent",
     hasStockChange |-> FALSE, stockChange |-> 0, options |-> NoOptions]

\* normalizeHostPayload of a parsed reply, for what the client reads of it
HostPayload(sid, category, contradiction, sentiment, options) ==
    [sessionId |-> sid, text |-> "string", category |-> category,
     isContradiction |-> IF contradiction THEN "true" ELSE "false",
     sentiment |-> sentiment, reason |-> "absent",
     hasStockChange |-> FALSE, stockChange |-> 0, options |-> options]

(***************************************************************************)
(* Bookkeeping                                                             *)
(***************************************************************************)
CountTag(seq, tag) == Cardinality({ i \in DOMAIN seq : seq[i] = tag })

Snap == [state |-> interviewState, sent |-> sent, committed |-> Len(history),
         errors |-> CountTag(messages, "error"), clicks |-> 0,
         status |-> 0]

\* no pure function has been called yet
NoProbe == [fn |-> "none"]

NoSnap == [state |-> SeedState, sent |-> 0, committed |-> 0, errors |-> 0,
           clicks |-> 0, status |-> 0]

Request(kind, key, text, body, stage) ==
    [kind |-> kind, key |-> key, text |-> text,
     streakBefore |-> interviewState.evasiveStreak, body |-> body,
     stage |-> stage, status |-> 0, payload |-> NoPayload, asked |-> FALSE,
     snap |-> Snap]

InitBody == [sessionId |-> 0, message |-> "", selectedKey |-> "absent"]

\* the JSON body initInterview posts to /api/init
CompanyBody(c) == [company |-> c] @@ InitBody

Remove(seq, i) == [ j \in 1..(Len(seq) - 1) |-> IF j < i THEN seq[j] ELSE seq[j + 1] ]

ChatInFlight == { i \in DOMAIN inflight : inflight[i].kind = "chat" }

(***************************************************************************)
(* Initial state: the page has just loaded, the server has just started.   *)
(***************************************************************************)
Init ==
    /\ phase = "SETUP"
    /\ messages = << >>
    /\ isLoading = FALSE
    /\ answerOptions = NoOptions
    /\ isAnswerLocked = FALSE
    /\ interviewState = SeedState
    /\ lastQuestionRef = 0
    /\ isIntroTutorialActive = FALSE
    /\ introTutorialRanRef = FALSE
    /\ introTimer = FALSE
    /\ tutorialPlayed = FALSE
    /\ company = NoCompany
    /\ openings = 0
    /\ sessionId = 0
    /\ inflight = << >>
    /\ sessions = {}
    /\ issued = 0
    /\ hasKey \in BOOLEAN
    /\ history = << >>
    /\ sent = 0
    /\ clicks = 0
    /\ loads = 1
    /\ lastEvent = "load"
    /\ lastSnap = NoSnap
    /\ twin = [state |-> SeedState, delta |-> 0, firstDelta |-> 0,
               echoed |-> "good", sameText |-> TRUE, sameSoFar |-> TRUE]
    /\ probe = NoProbe

serverVars == << sessions, issued, hasKey >>


clientVars == << phase, messages, isLoading, answerOptions, isAnswerLocked,
                 interviewState, lastQuestionRef, isIntroTutorialActive,
                 introTutorialRanRef, introTimer, tutorialPlayed, sessionId, company,
                 openings,
                 history, sent >>

(***************************************************************************)
(* App.tsx: the handlers                                                   *)
(***************************************************************************)
\* faulty variant: the opening request is sent twice
StartFirst_Twice ==
    /\ isLoading' = TRUE
    /\ inflight' = Append(Append(inflight,
                          Request("init", "", "", CompanyBody(company), "sent")),
                          Request("init", "", "", CompanyBody(company), "sent"))
    /\ openings' = openings + 2

\* startFirstGeminiQuestion up to its await: the opening request goes out
StartFirst ==
    /\ isLoading' = TRUE
    /\ openings' = openings + 1
    /\ inflight' = Append(inflight,
                          Request("init", "", "", CompanyBody(company), "sent"))

\* faulty variant: a complete profile goes straight to the interview
HandleSetupSubmit_SkipsIntro(nameGiven, missionGiven) ==
    /\ phase = "SETUP"
    /\ ~introTimer
    /\ company' = [name |-> nameGiven, mission |-> missionGiven]
    /\ IF nameGiven /\ missionGiven
       THEN /\ messages' = << >>
            /\ lastQuestionRef' = 0
            /\ answerOptions' = NoOptions
            /\ isAnswerLocked' = FALSE
            /\ interviewState' = SeedState
            /\ history' = << >>
            /\ introTutorialRanRef' = FALSE
            /\ phase' = "INTERVIEW"
            /\ introTimer' = TRUE
            /\ openings' = 0
            /\ lastEvent' = "submit"
       ELSE /\ UNCHANGED << messages, lastQuestionRef, answerOptions,
                            isAnswerLocked, interviewState, history,
                            introTutorialRanRef, phase, introTimer, openings >>
            /\ lastEvent' = "submitRejected"
    /\ lastSnap' = NoSnap
    /\ UNCHANGED << isLoading, isIntroTutorialActive, tutorialPlayed, sessionId,
                    inflight, sent, clicks, loads, twin, probe >>
    /\ UNCHANGED serverVars

\* faulty variant: the profile is not validated
HandleSetupSubmit_NoValidation(nameGiven, missionGiven) ==
    /\ phase = "SETUP"
    /\ ~introTimer
    /\ company' = [name |-> nameGiven, mission |-> missionGiven]
    /\ messages' = << >>
    /\ lastQuestionRef' = 0
    /\ answerOptions' = NoOptions
    /\ isAnswerLocked' = FALSE
    /\ interviewState' = SeedState
    /\ history' = << >>
    /\ introTutorialRanRef' = FALSE
    /\ phase' = "INTRO"
    /\ introTimer' = TRUE
    /\ openings' = 0
    /\ lastEvent' = IF nameGiven /\ missionGiven THEN "submit" ELSE "submitRejected"
    /\ lastSnap' = NoSnap
    /\ UNCHANGED << isLoading, isIntroTutorialActive, tutorialPlayed, sessionId,
                    inflight, sent, clicks, loads, twin, probe >>
    /\ UNCHANGED serverVars

\* the form is filled in as the parameters say; then handleSetupSubmit and,
\* for a complete profile, startInterview
HandleSetupSubmit(nameGiven, missionGiven) ==
    /\ phase = "SETUP"
    /\ ~introTimer
    /\ company' = [name |-> nameGiven, mission |-> missionGiven]
    /\ IF nameGiven /\ missionGiven
       THEN /\ messages' = << >>
            /\ lastQuestionRef' = 0
            /\ answerOptions' = NoOptions
            /\ isAnswerLocked' = FALSE
            /\ interviewState' = SeedState
            /\ history' = << >>
            /\ introTutorialRanRef' = FALSE
            /\ phase' = "INTRO"
            /\ introTimer' = TRUE
            /\ openings' = 0
            /\ lastEvent' = "submit"
       ELSE /\ UNCHANGED << messages, lastQuestionRef, answerOptions,
                            isAnswerLocked, interviewState, history,
                            introTutorialRanRef, phase, introTimer, openings >>
            /\ lastEvent' = "submitRejected"
    /\ lastSnap' = NoSnap
    /\ UNCHANGED << isLoading, isIntroTutorialActive, tutorialPlayed, sessionId,
                    inflight, sent, clicks, loads, twin, probe >>
    /\ UNCHANGED serverVars

\* the timer callback of startInterview, with runIntroTutorialThenStart up to
\* its first await
IntroTimer ==
    /\ introTimer
    /\ Len(inflight) < MaxInFlight
    /\ introTimer' = FALSE
    /\ phase' = "INTERVIEW"
    /\ IF introTutorialRanRef
       THEN /\ isLoading' = FALSE
            /\ UNCHANGED << introTutorialRanRef, inflight, isIntroTutorialActive,
                            answerOptions, isAnswerLocked, interviewState, history,
                            openings >>
       ELSE /\ introTutorialRanRef' = TRUE
            /\ IF tutorialPlayed
               THEN /\ StartFirst
                    /\ UNCHANGED << isIntroTutorialActive, answerOptions,
                                    isAnswerLocked, interviewState, history >>
               ELSE /\ isLoading' = FALSE
                    /\ isIntroTutorialActive' = TRUE
                    /\ answerOptions' = NoOptions
                    /\ isAnswerLocked' = TRUE
                    /\ interviewState' =
                           [interviewState EXCEPT
                               !.stockPrice = STARTING_STOCK_PRICE,
                               !.lowestPrice = STARTING_STOCK_PRICE,
                               !.audienceSentiment = 50,
                               !.awaitingAnswer = FALSE,
                               !.questionCount = 0,
                               !.maxQuestions = TOTAL_QUESTIONS,
                               !.outcome = "none",
                               !.worstAnswer = NoWorst,
                               !.evasiveStreak = 0]
                    /\ history' = << >>
                    /\ UNCHANGED << inflight, openings >>
    /\ lastEvent' = "introTimer"
    /\ lastSnap' = NoSnap
    /\ UNCHANGED << messages, lastQuestionRef, tutorialPlayed, company, sessionId, sent,
                    clicks, loads, twin, probe >>
    /\ UNCHANGED serverVars

\* runIntroTutorialThenStart after its sleep
TutorialEnd ==
    /\ isIntroTutorialActive
    /\ Len(inflight) < MaxInFlight
    /\ isIntroTutorialActive' = FALSE
    /\ tutorialPlayed' = TRUE
    /\ messages' = << >>
    /\ StartFirst
    /\ lastEvent' = "tutorialEnd"
    /\ lastSnap' = NoSnap
    /\ UNCHANGED << phase, answerOptions, isAnswerLocked, interviewState,
                    lastQuestionRef, introTutorialRanRef, introTimer, sessionId,
                    company, history, sent, clicks, loads, twin, probe >>
    /\ UNCHANGED serverVars

\* startFirstGeminiQuestion resumes with the opening turn
OpeningReceived(i, options) ==
    /\ i \in DOMAIN inflight
    /\ inflight[i].kind = "init"
    /\ inflight[i].stage = "replied"
    /\ inflight[i].status = 200
    /\ options \in ServiceOptions(inflight[i].payload.options)
    /\ sessionId' = inflight[i].payload.sessionId
    /\ messages' = Append(messages, "host")
    /\ lastQuestionRef' = 1
    /\ answerOptions' = options
    /\ isAnswerLocked' = FALSE
    /\ interviewState' = [interviewState EXCEPT !.awaitingAnswer = TRUE,
                                                !.questionCount = 1,
                                                !.maxQuestions = TOTAL_QUESTIONS]
    /\ isLoading' = FALSE
    /\ lastSnap' = inflight[i].snap
    /\ inflight' = Remove(inflight, i)
    /\ lastEvent' = "initOk"
    /\ UNCHANGED << phase, isIntroTutorialActive, introTutorialRanRef, introTimer,
                    tutorialPlayed, company, openings, history, sent, clicks, loads, twin, probe >>
    /\ UNCHANGED serverVars

\* startFirstGeminiQuestion resumes in its catch block
OpeningFailed(i) ==
    /\ i \in DOMAIN inflight
    /\ inflight[i].kind = "init"
    /\ inflight[i].stage = "replied"
    /\ inflight[i].status # 200
    /\ messages' = Append(messages, "error")
    /\ answerOptions' = NoOptions
    /\ interviewState' = [interviewState EXCEPT !.awaitingAnswer = FALSE]
    /\ isLoading' = FALSE
    /\ lastSnap' = inflight[i].snap
    /\ inflight' = Remove(inflight, i)
    /\ lastEvent' = "initFail"
    /\ UNCHANGED << phase, isAnswerLocked, lastQuestionRef, isIntroTutorialActive,
                    introTutorialRanRef, introTimer, tutorialPlayed, company, openings, sessionId,
                    history, sent, clicks, loads, twin, probe >>
    /\ UNCHANGED serverVars

\* handleSelectAnswer past its early returns, and resolveSelectedAnswer up to
\* its await (sendUserAnswer throws before any request when sessionId is null)
HandleSelectAnswer(key) ==
    /\ CanSelect
    /\ Len(inflight) < MaxInFlight
    /\ LET selectedText == OptionText(answerOptions, key)
       IN  /\ messages' = Append(messages, "user")
           /\ interviewState' = Locking(interviewState)
           /\ isAnswerLocked' = TRUE
           /\ isLoading' = TRUE
           /\ IF sessionId = 0
              THEN /\ inflight' = Append(inflight,
                          Request("chat", key, selectedText, InitBody, "replied"))
                   /\ sent' = sent
              ELSE /\ inflight' = Append(inflight,
                          Request("chat", key, selectedText,
                                  ChatBody(sessionId, selectedText, key), "sent"))
                   /\ sent' = sent + 1
    /\ clicks' = Min(clicks + 1, MaxClicks)
    /\ lastEvent' = "select"
    /\ lastSnap' = NoSnap
    /\ UNCHANGED << phase, answerOptions, lastQuestionRef, isIntroTutorialActive,
                    introTutorialRanRef, introTimer, tutorialPlayed, company, openings, sessionId,
                    history, loads, twin, probe >>
    /\ UNCHANGED serverVars

\* handleSelectAnswer leaving through one of its early returns
SelectRejected(key) ==
    /\ phase = "INTERVIEW"
    /\ ~CanSelect
    /\ clicks' = IF ChatInFlight = {} THEN clicks ELSE Min(clicks + 1, MaxClicks)
    /\ UNCHANGED << lastEvent, lastSnap >>
    /\ UNCHANGED clientVars
    /\ UNCHANGED << inflight, loads, twin, probe >>
    /\ UNCHANGED serverVars

\* resolveSelectedAnswer resumes in its try block
TurnResolved(i, u, options) ==
    /\ i \in DOMAIN inflight
    /\ inflight[i].kind = "chat"
    /\ inflight[i].stage = "replied"
    /\ inflight[i].status = 200
    /\ options \in ServiceOptions(inflight[i].payload.options)
    /\ LET e == inflight[i]
           response == normaliseResponse(e.payload)
           r == Committed(interviewState, e.key, e.text, e.streakBefore,
                          lastQuestionRef, response, u)
       IN  /\ interviewState' = r.state
           /\ phase' = IF r.state.outcome = "success" THEN "SUMMARY" ELSE phase
           /\ lastQuestionRef' = IF r.state.awaitingAnswer
                                 THEN r.state.questionCount ELSE lastQuestionRef
           /\ history' = Append(history,
                  [delta |-> r.delta, key |-> e.key, question |-> lastQuestionRef,
                   price |-> r.state.stockPrice,
                   contradiction |-> response.isContradiction])
           /\ lastSnap' = [e.snap EXCEPT !.clicks = clicks, !.status = e.status]
    /\ messages' = Append(messages, "host")
    /\ answerOptions' = options
    /\ isAnswerLocked' = FALSE
    /\ isLoading' = FALSE
    /\ inflight' = Remove(inflight, i)
    /\ clicks' = IF ChatInFlight = {i} THEN 0 ELSE clicks
    /\ lastEvent' = "chatOk"
    /\ UNCHANGED << isIntroTutorialActive, introTutorialRanRef, introTimer,
                    tutorialPlayed, company, openings, sessionId, sent, loads, twin, probe >>
    /\ UNCHANGED serverVars

\* faulty variant: a timeout fails the turn while the request is unanswered
TurnFailed_Timeout(i) ==
    /\ i \in DOMAIN inflight
    /\ inflight[i].kind = "chat"
    /\ messages' = Append(messages, "error")
    /\ answerOptions' = NoOptions
    /\ isAnswerLocked' = FALSE
    /\ interviewState' = Recovered(interviewState)
    /\ isLoading' = FALSE
    /\ lastSnap' = [inflight[i].snap EXCEPT !.clicks = clicks,
                                            !.status = inflight[i].status]
    /\ inflight' = Remove(inflight, i)
    /\ clicks' = IF ChatInFlight = {i} THEN 0 ELSE clicks
    /\ lastEvent' = "chatFail"
    /\ UNCHANGED << phase, lastQuestionRef, isIntroTutorialActive,
                    introTutorialRanRef, introTimer, tutorialPlayed, company, openings, sessionId,
                    history, sent, loads, twin, probe >>
    /\ UNCHANGED serverVars

\* resolveSelectedAnswer resumes in its catch block
TurnFailed(i) ==
    /\ i \in DOMAIN inflight
    /\ inflight[i].kind = "chat"
    /\ inflight[i].stage = "replied"
    /\ inflight[i].status # 200
    /\ messages' = Append(messages, "error")
    /\ answerOptions' = NoOptions
    /\ isAnswerLocked' = FALSE
    /\ interviewState' = Recovered(interviewState)
    /\ isLoading' = FALSE
    /\ lastSnap' = [inflight[i].snap EXCEPT !.clicks = clicks,
                                            !.status = inflight[i].status]
    /\ inflight' = Remove(inflight, i)
    /\ clicks' = IF ChatInFlight = {i} THEN 0 ELSE clicks
    /\ lastEvent' = "chatFail"
    /\ UNCHANGED << phase, lastQuestionRef, isIntroTutorialActive,
                    introTutorialRanRef, introTimer, tutorialPlayed, company, openings, sessionId,
                    history, sent, loads, twin, probe >>
    /\ UNCHANGED serverVars

\* the Replay button of the summary screen: window.location.reload()
Replay ==
    /\ phase = "SUMMARY"
    /\ loads < MaxLoads
    /\ phase' = "SETUP"
    /\ messages' = << >>
    /\ isLoading' = FALSE
    /\ answerOptions' = NoOptions
    /\ isAnswerLocked' = FALSE
    /\ interviewState' = SeedState
    /\ lastQuestionRef' = 0
    /\ isIntroTutorialActive' = FALSE
    /\ introTutorialRanRef' = FALSE
    /\ introTimer' = FALSE
    /\ sessionId' = 0
    /\ inflight' = << >>
    /\ history' = << >>
    /\ sent' = 0
    /\ clicks' = 0
    /\ loads' = loads + 1
    /\ lastEvent' = "load"
    /\ lastSnap' = NoSnap
    /\ company' = NoCompany
    /\ openings' = 0
    /\ UNCHANGED << tutorialPlayed, twin, probe >>
    /\ UNCHANGED serverVars

(***************************************************************************)
(* server.js: the handlers, and the network                                *)
(***************************************************************************)
Answer(i, status, payload, asked) ==
    inflight' = [inflight EXCEPT ![i].stage = "replied", ![i].status = status,
                                 ![i].payload = payload, ![i].asked = asked]

\* POST /api/init
ServerInit(i, gem, contradiction, options) ==
    /\ i \in DOMAIN inflight
    /\ inflight[i].kind = "init"
    /\ inflight[i].stage = "sent"
    /\ IF InitCreatesSession(inflight[i].body)
       THEN /\ issued' = issued + 1
            /\ sessions' = sessions \cup {issued + 1}
       ELSE UNCHANGED << issued, sessions >>
    /\ IF InitStatus(inflight[i].body, gem) = 200
       THEN Answer(i, 200, HostPayload(issued + 1, "good", contradiction,
                                       "neutral", options), TRUE)
       ELSE /\ ~contradiction
            /\ options.evasive = "plain"
            /\ Answer(i, InitStatus(inflight[i].body, gem), NoPayload,
                      InitCreatesSession(inflight[i].body))
    /\ lastEvent' = "serverInit"
    /\ lastSnap' = NoSnap
    /\ UNCHANGED clientVars
    /\ UNCHANGED << hasKey, clicks, loads, twin, probe >>

\* POST /api/chat
ServerChat(i, gem, contradiction, options) ==
    /\ i \in DOMAIN inflight
    /\ inflight[i].kind = "chat"
    /\ inflight[i].stage = "sent"
    /\ LET body == inflight[i].body
           status == ChatStatus(body, gem)
           sel == ChatSel(body.selectedKey)
       IN  IF status = 200
           THEN Answer(i, 200, HostPayload(0, selectionToCategory(sel),
                                           contradiction, "neutral", options),
                       TRUE)
           ELSE /\ ~contradiction
                /\ options.evasive = "plain"
                /\ Answer(i, status, NoPayload, ChatAsksGemini(body))
    /\ lastEvent' = "serverChat"
    /\ lastSnap' = NoSnap
    /\ UNCHANGED clientVars
    /\ UNCHANGED << clicks, loads, twin, probe >>
    /\ UNCHANGED serverVars

\* fetch rejects: the request or its reply is lost
NetworkFail(i) ==
    /\ i \in DOMAIN inflight
    /\ inflight[i].stage = "sent"
    /\ Answer(i, 0, NoPayload, FALSE)
    /\ lastEvent' = "networkFail"
    /\ lastSnap' = NoSnap
    /\ UNCHANGED clientVars
    /\ UNCHANGED << clicks, loads, twin, probe >>
    /\ UNCHANGED serverVars

\* the server process restarts: the session map starts empty
ServerRestart ==
    /\ sessions # {}
    /\ sessions' = {}
    /\ lastEvent' = "serverRestart"
    /\ lastSnap' = NoSnap
    /\ UNCHANGED clientVars
    /\ UNCHANGED << issued, hasKey, inflight, clicks, loads, twin, probe >>

Next ==
    \/ \E n \in BOOLEAN, m \in BOOLEAN : HandleSetupSubmit(n, m)
    \/ IntroTimer
    \/ TutorialEnd
    \/ \E i \in 1..MaxInFlight, o \in OptionSets \cup {NoOptions} : OpeningReceived(i, o)
    \/ \E i \in 1..MaxInFlight : OpeningFailed(i)
    \/ \E k \in Keys : HandleSelectAnswer(k)
    \/ \E k \in Keys : SelectRejected(k)
    \/ \E i \in 1..MaxInFlight, u \in Draws, o \in OptionSets \cup {NoOptions} :
           TurnResolved(i, u, o)
    \/ \E i \in 1..MaxInFlight : TurnFailed(i)
    \/ Replay
    \/ \E i \in 1..MaxInFlight, g \in GeminiOutcomes, c \in BOOLEAN, o \in OptionSets :
           ServerInit(i, g, c, o)
    \/ \E i \in 1..MaxInFlight, g \in GeminiOutcomes, c \in BOOLEAN, o \in OptionSets :
           ServerChat(i, g, c, o)
    \/ \E i \in 1..MaxInFlight : NetworkFail(i)
    \/ ServerRestart

Spec == Init /\ [][Next]_vars


(***************************************************************************)
(* Two runs of the scoring core side by side: both receive the same        *)
(* option keys, contradiction flags and random draws; the second run's     *)
(* reply differs in the echoed category, the sentiment, the reason and the *)
(* self-reported stockChange, and the text of its option may differ.       *)
(***************************************************************************)
\* what a reply reports about the answer besides its category
Reports == { [sentiment |-> "positive", stockChange |-> 300, reason |-> "string"],
             [sentiment |-> "negative", stockChange |-> -300, reason |-> "absent"] }

OtherReplies(contradiction) ==
    { [HostPayload(0, c, contradiction, r.sentiment, NoOptions)
          EXCEPT !.hasStockChange = TRUE, !.stockChange = r.stockChange,
                 !.reason = r.reason] :
        c \in Categories, r \in Reports }

Armed(prev) == [prev EXCEPT !.awaitingAnswer = TRUE, !.questionCount = 1,
                            !.maxQuestions = TOTAL_QUESTIONS]

\* the opening turn arrives in both runs
PairArm ==
    /\ interviewState.questionCount = 0
    /\ interviewState' = Armed(interviewState)
    /\ twin' = [twin EXCEPT !.state = Armed(twin.state)]
    /\ lastQuestionRef' = 1
    /\ lastEvent' = "initOk"
    /\ UNCHANGED << phase, messages, isLoading, answerOptions, isAnswerLocked,
                    isIntroTutorialActive, introTutorialRanRef, introTimer,
                    tutorialPlayed, company, openings, sessionId, inflight, history, sent, clicks,
                    loads, lastSnap, probe >>
    /\ UNCHANGED serverVars

\* one turn is resolved in both runs
PairTurn(key, text, otherText, contradiction, u, other) ==
    /\ interviewState.awaitingAnswer
    /\ twin.state.awaitingAnswer
    /\ interviewState.questionCount <= MaxPairTurns
    /\ other \in OtherReplies(contradiction)
    /\ LET mine == HostPayload(0, selectionToCategory(key), contradiction,
                               "neutral", NoOptions)
           a == Committed(interviewState, key, text, interviewState.evasiveStreak,
                          lastQuestionRef, normaliseResponse(mine), u)
           b == Committed(twin.state, key, otherText, twin.state.evasiveStreak,
                          lastQuestionRef, normaliseResponse(other), u)
       IN  /\ interviewState' = a.state
           /\ twin' = [state |-> b.state, delta |-> b.delta, firstDelta |-> a.delta,
                        echoed |-> other.category,
                        sameText |-> (otherText = text),
                        sameSoFar |-> (twin.sameSoFar /\ otherText = text)]
           /\ lastQuestionRef' = IF a.state.awaitingAnswer
                                 THEN a.state.questionCount ELSE lastQuestionRef
    /\ lastEvent' = "chatOk"
    /\ UNCHANGED << phase, messages, isLoading, answerOptions, isAnswerLocked,
                    isIntroTutorialActive, introTutorialRanRef, introTimer,
                    tutorialPlayed, company, openings, sessionId, inflight, history, sent, clicks,
                    loads, lastSnap, probe >>
    /\ UNCHANGED serverVars

NextPair ==
    \/ PairArm
    \/ \E k \in Keys, t \in Texts, ot \in Texts, c \in BOOLEAN, u \in Draws :
          \E o \in OtherReplies(c) : PairTurn(k, t, ot, c, u, o)

SpecPair == Init /\ [][NextPair]_vars

(***************************************************************************)
(* server.js on its own: any client posts any body, one request at a time. *)
(***************************************************************************)
ChatBodies ==
    { [sessionId |-> sid, message |-> m, selectedKey |-> k] :
        sid \in 0..MaxSessions, m \in {"", "plain"},
        k \in {"absent", "good", "evasive"} }

serverOnly ==
    /\ lastSnap' = NoSnap
    /\ UNCHANGED << clicks, loads, twin, probe >>
    /\ UNCHANGED clientVars

\* a request for POST /api/init arrives
PostInit(nameGiven, missionGiven) ==
    /\ inflight = << >>
    /\ issued < MaxSessions
    /\ inflight' = << Request("init", "", "",
                              CompanyBody([name |-> nameGiven,
                                           mission |-> missionGiven]), "sent") >>
    /\ lastEvent' = "postInit"
    /\ serverOnly
    /\ UNCHANGED serverVars

\* a request for POST /api/chat arrives
PostChat(body) ==
    /\ inflight = << >>
    /\ inflight' = << Request("chat", ChatSel(body.selectedKey), body.message,
                              body, "sent") >>
    /\ lastEvent' = "postChat"
    /\ serverOnly
    /\ UNCHANGED serverVars

\* the reply has gone out
Replied ==
    /\ inflight # << >>
    /\ inflight[1].stage = "replied"
    /\ inflight' = << >>
    /\ lastEvent' = "replied"
    /\ serverOnly
    /\ UNCHANGED serverVars

NextServer ==
    \/ \E n \in BOOLEAN, m \in BOOLEAN : PostInit(n, m)
    \/ \E body \in ChatBodies : PostChat(body)
    \/ Replied
    \/ \E g \in GeminiOutcomes, c \in BOOLEAN, o \in OptionSets : ServerInit(1, g, c, o)
    \/ \E g \in GeminiOutcomes, c \in BOOLEAN, o \in OptionSets : ServerChat(1, g, c, o)
    \/ ServerRestart

SpecServer == Init /\ [][NextServer]_vars

(***************************************************************************)
(* server.js: the option texts. A text is its number of words, the         *)
(* position of its first word that ends with . ! or ? (0: there is none),  *)
(* and whether a line break stands before that word.                       *)
(***************************************************************************)
Text(n, k, b) == [words |-> n, firstEnd |-> k, lineBreak |-> b]

EmptyText == Text(0, 0, FALSE)

\* a line break stands between two words
OptionStrings ==
    UNION { { t \in { Text(n, k, b) : k \in 0..n, b \in BOOLEAN } :
                  t.lineBreak => t.firstEnd >= 2 }
            : n \in 0..MaxWords }

goodFallback == Text(14, 14, FALSE)

evasiveFallback == Text(12, 12, FALSE)

countWords(s) == s.words

\* the words kept are joined with single spaces: a line break is lost
trimToMaxWords(s, maxWords) ==
    IF s.words <= maxWords THEN s
    ELSE Text(maxWords, IF s.firstEnd <= maxWords THEN s.firstEnd ELSE 0, FALSE)

\* the pattern /^(.+?[.!?])(\s|$)/: the dot matches no line break
firstSentence(s) ==
    IF s.words = 0 THEN EmptyText
    ELSE IF s.firstEnd > 0 /\ ~s.lineBreak THEN Text(s.firstEnd, s.firstEnd, FALSE)
    ELSE s

normalizeOptionText(raw, fallback) ==
    LET s1 == trimToMaxWords(firstSentence(raw), 18)
        s2 == IF countWords(s1) < 3 THEN fallback ELSE s1
    IN  trimToMaxWords(firstSentence(s2), 18)

\* options is the raw options value: a missing option is the empty text
normalizeOptions(options) ==
    [good |-> normalizeOptionText(options.good, goodFallback),
     evasive |-> normalizeOptionText(options.evasive, evasiveFallback)]

\* the text ends with the word that ends its first sentence
EndsSentence(s) == s.words > 0 /\ s.firstEnd = s.words

\* what property access finds on a value that is not an object
NoFields == [text |-> "absent", category |-> "absent", isContradiction |-> "absent",
             sentiment |-> "absent", reason |-> "absent",
             hasStockChange |-> FALSE, stockChange |-> 0,
             options |-> [good |-> EmptyText, evasive |-> EmptyText]]

Fields(value) == IF value.kind = "object" THEN value ELSE NoFields

\* text is "string", "empty", "number" (not a string) or "absent";
\* isContradiction is "true", "false", "string" (a non-empty string) or "absent"
normalizeHostPayload(parsed) ==
    LET f == Fields(parsed)
    IN  [text |-> IF f.text = "absent" THEN "string" ELSE f.text,
         category |-> IF f.category = "absent" THEN "good" ELSE f.category,
         isContradiction |-> f.isContradiction \in {"true", "string"},
         sentiment |-> f.sentiment,
         reason |-> f.reason,
         options |-> normalizeOptions(f.options)]

\* normaliseResponse called with any value: reading a property of null or
\* undefined is a TypeError
normaliseResponseOf(raw) ==
    IF raw.kind \in {"null", "undefined"}
    THEN [threw |-> TRUE, payload |-> [text |-> "absent"]]
    ELSE [threw |-> FALSE, payload |-> normaliseResponse(Fields(raw))]

(***************************************************************************)
(* The normalisers called once, on a value drawn from the values a parsed  *)
(* JSON body can be.                                                       *)
(***************************************************************************)
StockChanges == {-300, -250, -249, 0, 49, 50, 300}

WithKind(k) == [kind |-> k] @@ NoFields

EmptyObject == WithKind("object")

ReplyValues ==
    { WithKind(k) : k \in {"null", "undefined", "number", "string"} }
    \cup
    { [EmptyObject EXCEPT !.text = t, !.category = c, !.isContradiction = x,
                          !.sentiment = s, !.reason = r,
                          !.hasStockChange = d.has, !.stockChange = d.value] :
        t \in {"absent", "empty", "string"},
        c \in {"absent", "good", "evasive", "bad", "other"},
        x \in {"absent", "true", "false"},
        s \in {"absent", "positive", "neutral", "negative"},
        r \in {"absent", "string"},
        d \in {[has |-> FALSE, value |-> 0]}
                  \cup {[has |-> TRUE, value |-> v] : v \in StockChanges} }

SomeOptionStrings ==
    { EmptyText, Text(2, 2, FALSE), Text(10, 10, FALSE),
      Text(25, 0, FALSE), Text(MaxWords, MaxWords, FALSE) }

HostValues ==
    { WithKind(k) : k \in {"null", "undefined", "number", "string"} }
    \cup
    { [EmptyObject EXCEPT !.text = t, !.category = c, !.isContradiction = x,
                          !.options = [good |-> g, evasive |-> e]] :
        t \in {"absent", "empty", "string", "number"},
        c \in {"absent", "good", "evasive", "bad", "other"},
        x \in {"absent", "true", "false", "string"},
        g \in SomeOptionStrings, e \in SomeOptionStrings }

NotProbed ==
    /\ probe.fn = "none"
    /\ UNCHANGED << lastEvent, lastSnap, inflight, clicks, loads, twin >>
    /\ UNCHANGED clientVars
    /\ UNCHANGED serverVars

CallNormaliseResponse(raw) ==
    /\ NotProbed
    /\ probe' = [fn |-> "normaliseResponse", raw |-> raw,
                 threw |-> normaliseResponseOf(raw).threw,
                 out |-> normaliseResponseOf(raw).payload]

CallNormalizeHostPayload(parsed) ==
    /\ NotProbed
    /\ probe' = [fn |-> "normalizeHostPayload", raw |-> parsed, threw |-> FALSE,
                 out |-> normalizeHostPayload(parsed)]

CallNormalizeOptionText(raw, fallback) ==
    /\ NotProbed
    /\ probe' = [fn |-> "normalizeOptionText", raw |-> raw, fallback |-> fallback,
                 threw |-> FALSE, out |-> normalizeOptionText(raw, fallback)]

NextNorm ==
    \/ \E raw \in ReplyValues : CallNormaliseResponse(raw)
    \/ \E parsed \in HostValues : CallNormalizeHostPayload(parsed)
    \/ \E raw \in OptionStrings, fallback \in {goodFallback, evasiveFallback} :
           CallNormalizeOptionText(raw, fallback)

SpecNorm == Init /\ [][NextNorm]_vars

(***************************************************************************)
(* scoreAnswer called turn after turn as resolveSelectedAnswer calls it:   *)
(* the context carries the stored streak, the result's nextEvasiveStreak   *)
(* is stored for the next call. The bucket, the time left, the text and    *)
(* the draw are free.                                                      *)
(***************************************************************************)
TimesLeft == {60000, 15000}

Scoring == probe.fn = "scoreAnswer"

\* interviewState.evasiveStreak as the chain of calls has left it
StoredStreak == IF Scoring THEN probe.next ELSE 0

Calls == IF Scoring THEN probe.calls ELSE 0

NoCall == [set |-> FALSE, category |-> "good", isContradiction |-> FALSE,
           answerText |-> "plain", timeLeftMs |-> 60000, u |-> 0, before |-> 0,
           applied |-> 0]

LastCall ==
    IF Scoring
    THEN [set |-> TRUE, category |-> probe.ctx.category,
          isContradiction |-> probe.ctx.isContradiction,
          answerText |-> probe.ctx.answerText,
          timeLeftMs |-> probe.ctx.timeLeftMs, u |-> probe.u,
          before |-> probe.ctx.evasiveStreakBefore, applied |-> probe.applied]
    ELSE NoCall

\* one scoring call and the delta resolveSelectedAnswer makes of it
ScoreCall(category, contradiction, text, timeLeftMs, u) ==
    /\ probe.fn \in {"none", "scoreAnswer"}
    /\ Calls < MaxCalls
    /\ LET ctx == [category |-> category, isContradiction |-> contradiction,
                   evasiveStreakBefore |-> StoredStreak,
                   timeLeftMs |-> timeLeftMs, answerText |-> text]
           scored == scoreAnswer(ctx, u)
       IN  probe' = [fn |-> "scoreAnswer", ctx |-> ctx, u |-> u,
                     delta |-> scored.delta,
                     next |-> scored.nextEvasiveStreak,
                     applied |-> FinalDelta(category, scored.delta, ctx),
                     calls |-> Calls + 1,
                     prev |-> LastCall]
    /\ UNCHANGED << lastEvent, lastSnap, inflight, clicks, loads, twin >>
    /\ UNCHANGED clientVars
    /\ UNCHANGED serverVars

NextScore ==
    \E c \in Categories, x \in BOOLEAN, t \in Texts, l \in TimesLeft, u \in Draws :
        ScoreCall(c, x, t, l, u)

SpecScore == Init /\ [][NextScore]_vars

(***************************************************************************)
(* The clamps of resolveSelectedAnswer applied to any scored.delta          *)
(***************************************************************************)
ScoredDeltas == (0 - MaxScored)..MaxScored

CallFinalDelta(selectedKey, scoredDelta, contradiction) ==
    /\ NotProbed
    /\ probe' = [fn |-> "finalDelta", key |-> selectedKey, scored |-> scoredDelta,
                 contradiction |-> contradiction,
                 out |-> FinalDelta(selectedKey, scoredDelta,
                                    [isContradiction |-> contradiction])]

NextClamp ==
    \E k \in Keys, d \in ScoredDeltas, x \in BOOLEAN : CallFinalDelta(k, d, x)

SpecClamp == Init /\ [][NextClamp]_vars

(***************************************************************************)
(* The price over the turns of one interview, the clamps of                *)
(* resolveSelectedAnswer applied to any scored.delta                       *)
(***************************************************************************)
SomeScored == {0 - MaxScored, -150, 0, 150, MaxScored}

Pricing == probe.fn = "price"

Turns == IF Pricing THEN probe.turns ELSE 0

\* one resolved turn: finalDelta, then applyDeltaAndCheck
PriceTurn(selectedKey, scoredDelta, contradiction) ==
    /\ probe.fn \in {"none", "price"}
    /\ Turns < TOTAL_QUESTIONS
    /\ LET prev == IF Pricing THEN probe.state ELSE SeedState
           finalDelta == FinalDelta(selectedKey, scoredDelta,
                                    [isContradiction |-> contradiction])
       IN  probe' = [fn |-> "price", turns |-> Turns + 1, delta |-> finalDelta,
                     nextPrice |-> prev.stockPrice + finalDelta,
                     state |-> applyDeltaAndCheck(prev, finalDelta, NoWorst)]
    /\ UNCHANGED << lastEvent, lastSnap, inflight, clicks, loads, twin >>
    /\ UNCHANGED clientVars
    /\ UNCHANGED serverVars

NextPrice ==
    \E k \in Keys, d \in SomeScored, x \in BOOLEAN : PriceTurn(k, d, x)

SpecPrice == Init /\ [][NextPrice]_vars

(***************************************************************************)
(* One interview with a backend that answers every request successfully,   *)
(* timers that fire, continuations that run and a player who selects an    *)
(* option whenever the app lets them.                                      *)
(***************************************************************************)
\* POST /api/init answers 200
InitSucceeds(i, contradiction, options) ==
    /\ i \in DOMAIN inflight
    /\ inflight[i].kind = "init"
    /\ InitStatus(inflight[i].body, "json") = 200
    /\ ServerInit(i, "json", contradiction, options)

\* POST /api/chat answers 200
ChatSucceeds(i, contradiction, options) ==
    /\ i \in DOMAIN inflight
    /\ inflight[i].kind = "chat"
    /\ ChatStatus(inflight[i].body, "json") = 200
    /\ ServerChat(i, "json", contradiction, options)

Replies ==
    \E i \in 1..MaxInFlight, c \in BOOLEAN, o \in OptionSets :
        InitSucceeds(i, c, o) \/ ChatSucceeds(i, c, o)

Resumes ==
    \E i \in 1..MaxInFlight, u \in Draws, o \in OptionSets \cup {NoOptions} :
        OpeningReceived(i, o) \/ TurnResolved(i, u, o)

Selects == \E k \in Keys : HandleSelectAnswer(k)

NextLive ==
    \/ \E n \in BOOLEAN, m \in BOOLEAN : HandleSetupSubmit(n, m)
    \/ IntroTimer
    \/ TutorialEnd
    \/ Replies
    \/ Resumes
    \/ Selects
    \/ \E k \in Keys : SelectRejected(k)

\* the server has its GEMINI_API_KEY
InitLive == Init /\ hasKey = TRUE

SpecLive ==
    /\ InitLive
    /\ [][NextLive]_vars
    /\ WF_vars(IntroTimer)
    /\ WF_vars(TutorialEnd)
    /\ WF_vars(Replies)
    /\ WF_vars(Resumes)
    /\ WF_vars(Selects)

(***************************************************************************)
(* Properties                                                              *)
(***************************************************************************)
Resolved == Len(history)

\* C1 (as stated): when answer selection is triggered twice before the first
\* turn resolution completes, one request is sent, one delta is committed and
\* questionCount advances by exactly one.
C1_AdvancesByOne ==
    (lastEvent = "chatOk" /\ lastSnap.clicks >= 2) =>
        /\ sent = lastSnap.sent + 1
        /\ Resolved = lastSnap.committed + 1
        /\ interviewState.questionCount = lastSnap.state.questionCount + 1

\* C1 (amended): when answer selection is triggered twice before the first
\* turn resolution completes, one request is sent and one delta is committed;
\* questionCount advances by exactly one, except on the final turn
\* (questionCount = maxQuestions), where it stays and outcome becomes success.
C1_OneScoredTurn ==
    (lastEvent = "chatOk" /\ lastSnap.clicks >= 2) =>
        /\ sent = lastSnap.sent + 1
        /\ Resolved = lastSnap.committed + 1
        /\ IF lastSnap.state.questionCount >= lastSnap.state.maxQuestions
           THEN /\ interviewState.questionCount = lastSnap.state.questionCount
                /\ interviewState.outcome = "success"
           ELSE interviewState.questionCount = lastSnap.state.questionCount + 1

C1_Witness ==
    /\ lastEvent = "chatOk"
    /\ lastSnap.clicks >= 2
    /\ interviewState.questionCount = lastSnap.state.questionCount + 1
    /\ Resolved >= 2

\* C2: at most one turn-resolution request is in flight, and while one is,
\* awaitingAnswer is false, input is locked and a further selection is
\* rejected and changes nothing.
C2_SingleFlight ==
    /\ [](/\ Cardinality(ChatInFlight) <= 1
          /\ ChatInFlight # {} =>
                /\ ~interviewState.awaitingAnswer
                /\ isAnswerLocked
                /\ isLoading
                /\ ~CanSelect)
    /\ [][(ChatInFlight # {} /\ clicks' > clicks) =>
              UNCHANGED << clientVars, inflight >>]_vars

C2_Witness ==
    /\ ChatInFlight # {}
    /\ clicks >= 2
    /\ Resolved >= 1

\* C3: after a failed turn resolution stockPrice, lowestPrice, worstAnswer,
\* evasiveStreak, questionCount and outcome are what they were before the
\* selection, one error line has been posted, the options are cleared,
\* awaitingAnswer is true and input is unlocked.
C3_FailedTurnRestores ==
    lastEvent = "chatFail" =>
        /\ interviewState.stockPrice = lastSnap.state.stockPrice
        /\ interviewState.lowestPrice = lastSnap.state.lowestPrice
        /\ interviewState.worstAnswer = lastSnap.state.worstAnswer
        /\ interviewState.evasiveStreak = lastSnap.state.evasiveStreak
        /\ interviewState.questionCount = lastSnap.state.questionCount
        /\ interviewState.outcome = lastSnap.state.outcome
        /\ Resolved = lastSnap.committed
        /\ CountTag(messages, "error") = lastSnap.errors + 1
        /\ messages[Len(messages)] = "error"
        /\ answerOptions = NoOptions
        /\ interviewState.awaitingAnswer
        /\ ~isAnswerLocked
        /\ ~isLoading

C3_Witness ==
    /\ lastEvent = "chatFail"
    /\ Resolved >= 1
    /\ interviewState.worstAnswer.set
    /\ interviewState.evasiveStreak >= 1

\* C4 (as stated): after a failed opening request or a failed turn resolution
\* a player action that can make progress is enabled: selecting an answer, or
\* the controls of the setup and summary screens.
C4_NoDeadEnd ==
    lastEvent \in {"initFail", "chatFail"} =>
        \/ CanSelect
        \/ phase = "SETUP"
        \/ phase = "SUMMARY"

\* C5: after maxQuestions resolved turns outcome is success, the phase is
\* Summary and awaitingAnswer is false; after fewer, outcome is unset and the
\* phase is not Summary (Interview once a turn has been resolved).
C5_SuccessAfterN ==
    /\ Resolved <= interviewState.maxQuestions
    /\ Resolved = interviewState.maxQuestions =>
          /\ interviewState.outcome = "success"
          /\ phase = "SUMMARY"
          /\ ~interviewState.awaitingAnswer
    /\ Resolved < interviewState.maxQuestions =>
          /\ interviewState.outcome = "none"
          /\ phase # "SUMMARY"
          /\ Resolved >= 1 => phase = "INTERVIEW"

C5_Witness ==
    /\ Resolved = TOTAL_QUESTIONS
    /\ interviewState.outcome = "success"
    /\ phase = "SUMMARY"

\* the prices the interview has gone through since the state was seeded
Prices == {STARTING_STOCK_PRICE} \cup { history[i].price : i \in DOMAIN history }

\* C7: stockPrice is never below 0 and lowestPrice is the running minimum of
\* stockPrice since the interview state was seeded, so it never increases.
C7_RunningMinimum ==
    /\ [](/\ interviewState.stockPrice >= 0
          /\ interviewState.lowestPrice \in Prices
          /\ \A p \in Prices : interviewState.lowestPrice <= p)
    /\ [][interviewState'.lowestPrice <= interviewState.lowestPrice
          \/ interviewState' = SeedState]_vars

C7_Witness ==
    /\ Resolved >= 2
    /\ interviewState.lowestPrice < interviewState.stockPrice
    /\ interviewState.lowestPrice < STARTING_STOCK_PRICE

Negative == { i \in DOMAIN history : history[i].delta < 0 }

\* C8 (as stated): worstAnswer is the answer with the most negative committed
\* delta so far, the earliest such answer on ties.
C8_MostNegative ==
    IF Negative = {}
    THEN ~interviewState.worstAnswer.set
    ELSE LET i == CHOOSE i \in Negative :
                      \A j \in Negative :
                          \/ history[i].delta < history[j].delta
                          \/ history[i].delta = history[j].delta /\ i <= j
         IN  /\ interviewState.worstAnswer.set
             /\ interviewState.worstAnswer.delta = history[i].delta
             /\ interviewState.worstAnswer.questionText = history[i].question

\* C9 (as stated): the delta committed for a turn is determined by the
\* selected option key, the contradiction flag, the evasive streak and the
\* random draw alone.
C9_FourInputs ==
    lastEvent = "chatOk" => twin.delta = twin.firstDelta

\* C9 (amended): the delta committed for a turn is determined by the selected
\* option (its key and its text), the contradiction flag, the evasive streak
\* and the random draw: two runs that differ only in the echoed category,
\* sentiment, reason or self-reported score commit the same delta and reach
\* the same stockPrice.
C9_EchoIndependent ==
    /\ (lastEvent = "chatOk" /\ twin.sameText) => twin.delta = twin.firstDelta
    /\ twin.sameSoFar =>
          /\ twin.state.stockPrice = interviewState.stockPrice
          /\ twin.state.evasiveStreak = interviewState.evasiveStreak
          /\ twin.state.worstAnswer.delta = interviewState.worstAnswer.delta

C9_Witness ==
    /\ lastEvent = "chatOk"
    /\ twin.sameSoFar
    /\ twin.echoed = "bad"
    /\ twin.delta > 0
    /\ interviewState.questionCount >= 3
    /\ interviewState.worstAnswer.set

\* C10 (as stated): every turn-resolution request carries the key of the
\* selected option, and the category echoed in the reply is the scoring
\* bucket of that selection.
C10_KeyTagged ==
    \A i \in ChatInFlight :
        /\ inflight[i].body.sessionId # 0 =>
              inflight[i].body.selectedKey = inflight[i].key
        /\ (inflight[i].stage = "replied" /\ inflight[i].status = 200) =>
              inflight[i].payload.category = optionKeyToScoreCategory(inflight[i].key)

Flagged == { i \in DOMAIN history : history[i].contradiction }

\* C11 (as stated): the penalty committed for a contradiction-flagged turn is
\* one fixed negative value, whichever bucket the player selected.
C11_FixedPenalty ==
    \A i \in Flagged :
        /\ history[i].delta < 0
        /\ \A j \in Flagged : history[i].delta = history[j].delta

\* C12 (as stated): for every non-contradiction context scoreAnswer returns
\* a delta inside its bucket's band: strictly positive for good, strictly
\* negative for evasive and bad, and within the base range widened only by
\* the streak bonus and the closing-stretch multiplier.
C12_InsideBand ==
    (Scoring /\ ~probe.ctx.isContradiction) =>
        CASE probe.ctx.category = "good" ->
                 probe.delta > 0 /\ probe.delta >= 60 /\ probe.delta <= 110
          [] probe.ctx.category = "evasive" ->
                 probe.delta < 0 /\ probe.delta >= -121 /\ probe.delta <= -30
          [] probe.ctx.category = "bad" ->
                 probe.delta < 0 /\ probe.delta >= -253 /\ probe.delta <= -120

\* the evasive, non-contradicted picks in a row that end the first n turns
RECURSIVE EvasiveRun(_)
EvasiveRun(n) ==
    IF n = 0 THEN 0
    ELSE IF history[n].key = "evasive" /\ ~history[n].contradiction
    THEN EvasiveRun(n - 1) + 1
    ELSE 0

\* C13: scoreAnswer returns nextEvasiveStreak = evasiveStreakBefore + 1 when
\* the bucket is evasive and no contradiction is flagged, and 0 otherwise;
\* after each resolved turn the stored evasiveStreak is the number of evasive,
\* non-contradicted picks in a row ending at that turn.
C13_StreakCounts ==
    /\ interviewState.evasiveStreak = EvasiveRun(Resolved)
    /\ lastEvent = "chatOk" =>
          /\ interviewState.evasiveStreak =
                 IF history[Resolved].key = "evasive" /\ ~history[Resolved].contradiction
                 THEN lastSnap.state.evasiveStreak + 1
                 ELSE 0
          /\ \A c \in Categories, x \in BOOLEAN, n \in 0..TOTAL_QUESTIONS,
                t \in Texts, l \in TimesLeft, u \in Draws :
                scoreAnswer([category |-> c, isContradiction |-> x,
                             evasiveStreakBefore |-> n, timeLeftMs |-> l,
                             answerText |-> t], u).nextEvasiveStreak
                    = IF c = "evasive" /\ ~x THEN n + 1 ELSE 0

C13_Witness ==
    /\ lastEvent = "chatOk"
    /\ Resolved >= 3
    /\ interviewState.evasiveStreak = 2
    /\ history[1].key = "evasive"
    /\ history[1].contradiction

\* the last two calls were evasive, not flagged, with the same draw, text and
\* time left
EvasiveTwice ==
    /\ Scoring
    /\ probe.prev.set
    /\ probe.ctx.category = "evasive" /\ probe.prev.category = "evasive"
    /\ ~probe.ctx.isContradiction /\ ~probe.prev.isContradiction
    /\ probe.u = probe.prev.u
    /\ probe.ctx.answerText = probe.prev.answerText
    /\ probe.ctx.timeLeftMs = probe.prev.timeLeftMs

\* an evasive, unflagged call that follows a call of another kind
EvasiveAfterOther ==
    /\ Scoring
    /\ probe.prev.set
    /\ probe.ctx.category = "evasive" /\ ~probe.ctx.isContradiction
    /\ probe.prev.category # "evasive" \/ probe.prev.isContradiction

\* C14 (as stated): for a fixed draw each additional consecutive evasive pick
\* strictly increases the applied penalty until the capped streak bonus is
\* reached, after which it stays; another bucket in between resets the streak.
C14_EachPickIncreases ==
    /\ EvasiveTwice =>
          IF probe.prev.before >= 2
          THEN probe.applied = probe.prev.applied
          ELSE probe.applied < probe.prev.applied
    /\ EvasiveAfterOther => probe.ctx.evasiveStreakBefore = 0

\* C14 (amended): for a fixed draw, text and time left the applied penalty is
\* the same for the first two consecutive evasive picks, becomes larger at
\* the third pick (streak 2) - strictly unless the text earns the metrics
\* bonus - and stays there afterwards; another bucket in between resets the
\* streak, so the next evasive pick gets no bonus.
C14_BonusFromThirdPick ==
    /\ EvasiveTwice =>
          IF probe.ctx.evasiveStreakBefore = 2
          THEN /\ probe.applied <= probe.prev.applied
               /\ ~hasMetrics(probe.ctx.answerText) =>
                      probe.applied < probe.prev.applied
          ELSE probe.applied = probe.prev.applied
    /\ EvasiveAfterOther =>
          /\ probe.ctx.evasiveStreakBefore = 0
          /\ probe.applied >= -88

C14_Witness ==
    /\ EvasiveTwice
    /\ probe.ctx.evasiveStreakBefore = 2
    /\ probe.applied < probe.prev.applied
    /\ probe.calls >= 3

Normalised == probe.fn \in {"normaliseResponse", "normalizeHostPayload"}

\* C15 (as stated): given the empty object, normalizeHostPayload and
\* normaliseResponse each return non-empty text, a category of the enum, a
\* boolean isContradiction and a complete set of non-empty options.
C15_EmptyObjectDefaults ==
    (Normalised /\ probe.raw = EmptyObject) =>
        /\ ~probe.threw
        /\ probe.out.text = "string"
        /\ probe.out.category \in Categories
        /\ probe.out.isContradiction \in BOOLEAN
        /\ "options" \in DOMAIN probe.out
        /\ probe.out.options.good.words > 0
        /\ probe.out.options.evasive.words > 0

\* C16 (as stated): for every input value, null, undefined and non-objects
\* included, the normalisers return a payload and never throw.
C16_NeverThrows ==
    Normalised => ~probe.threw

\* C17 (as stated): for every raw option string normalizeOptionText returns
\* a non-empty text of at most 18 words that ends at a sentence boundary.
C17_OneShortSentence ==
    probe.fn = "normalizeOptionText" =>
        /\ probe.out.words > 0
        /\ probe.out.words <= 18
        /\ EndsSentence(probe.out)

\* a legacy-shape reply: numeric stockChange, no explicit category
Legacy ==
    /\ probe.fn = "normaliseResponse"
    /\ probe.raw.kind = "object"
    /\ probe.raw.hasStockChange
    /\ probe.raw.category = "absent"

Thresholds(stockChange) ==
    IF stockChange >= 50 THEN "good"
    ELSE IF stockChange <= -250 THEN "bad"
    ELSE "evasive"

\* C18 (as stated): for legacy-shape input the bucket is a function of
\* stockChange alone: good from 0.5 up, bad from -2.5 down, the middle bucket
\* in between; the reason is the fixed placeholder.
C18_StockChangeAlone ==
    Legacy =>
        /\ probe.out.category = Thresholds(probe.raw.stockChange)
        /\ probe.out.reason = "Normalised from legacy Gemini response"

\* C18 (amended): for legacy-shape input the bucket is a function of
\* stockChange and sentiment: good when stockChange >= 0.5 or the sentiment is
\* positive, else bad when stockChange <= -2.5 or the sentiment is negative,
\* else the middle bucket; with any other sentiment the thresholds decide
\* alone; the reason is the fixed placeholder.
C18_StockChangeAndSentiment ==
    Legacy =>
        /\ ~probe.threw
        /\ probe.raw.sentiment = "positive" => probe.out.category = "good"
        /\ probe.raw.sentiment = "negative" =>
              probe.out.category =
                  IF probe.raw.stockChange >= 50 THEN "good" ELSE "bad"
        /\ probe.raw.sentiment \notin {"positive", "negative"} =>
              probe.out.category = Thresholds(probe.raw.stockChange)
        /\ probe.out.reason = "Normalised from legacy Gemini response"
        /\ ~probe.out.isContradiction

C18_Witness ==
    /\ Legacy
    /\ probe.raw.sentiment = "neutral"
    /\ probe.raw.stockChange = -250
    /\ probe.out.category = "bad"

\* POST /api/chat answers request i in this step
ChatAnswered(i) ==
    /\ i \in DOMAIN inflight
    /\ inflight[i].kind = "chat"
    /\ inflight[i].stage = "sent"
    /\ lastEvent' = "serverChat"
    /\ i \in DOMAIN inflight'
    /\ inflight'[i].stage = "replied"

C20_NoRetryOnUnknownSession ==
    (lastEvent = "chatFail" /\ lastSnap.status = 404) =>
        ~interviewState.awaitingAnswer

\* C21 (as stated): when the generative backend's reply for a turn cannot be
\* parsed (POST /api/chat answers 502), the turn still completes as a normal
\* host turn: it is scored and committed, and no error line is posted.
C21_MalformedRecovered ==
    (lastEvent \in {"chatOk", "chatFail"} /\ lastSnap.status = 502) =>
        /\ lastEvent = "chatOk"
        /\ CountTag(messages, "error") = lastSnap.errors
        /\ Len(history) = lastSnap.committed + 1

\* a full reset: the page is loaded again and the setup screen shows
FullReset ==
    /\ loads' = loads + 1
    /\ phase' = "SETUP"
    /\ interviewState' = SeedState

\* C22: once outcome is set the phase is Summary, and until a full reset no
\* event changes outcome, phase, stockPrice, lowestPrice or questionCount.
C22_SummaryTerminal ==
    [][interviewState.outcome # "none" =>
          /\ phase = "SUMMARY"
          /\ \/ FullReset
             \/ /\ interviewState'.outcome = interviewState.outcome
                /\ phase' = phase
                /\ interviewState'.stockPrice = interviewState.stockPrice
                /\ interviewState'.lowestPrice = interviewState.lowestPrice
                /\ interviewState'.questionCount = interviewState.questionCount]_vars

C22_Witness ==
    /\ interviewState.outcome = "success"
    /\ phase = "SUMMARY"
    /\ lastEvent = "serverRestart"
    /\ interviewState.stockPrice # STARTING_STOCK_PRICE
    /\ interviewState.questionCount = TOTAL_QUESTIONS

\* C23: questionCount stays within 0..maxQuestions, and it changes only by
\* being reset to 0, by being set to 1 when the opening turn is received, or
\* by growing by exactly 1 when a non-final turn is resolved.
C23_TurnIndexBounded ==
    /\ [](/\ interviewState.questionCount >= 0
          /\ interviewState.questionCount <= interviewState.maxQuestions)
    /\ [][interviewState'.questionCount # interviewState.questionCount =>
              \/ interviewState'.questionCount = 0
              \/ /\ lastEvent' = "initOk"
                 /\ interviewState'.questionCount = 1
              \/ /\ lastEvent' = "chatOk"
                 /\ interviewState.questionCount < interviewState.maxQuestions
                 /\ interviewState'.questionCount = interviewState.questionCount + 1
                 /\ Len(history') = Len(history) + 1]_vars

C23_Witness ==
    /\ lastEvent = "chatOk"
    /\ lastSnap.state.questionCount = TOTAL_QUESTIONS - 1
    /\ interviewState.questionCount = TOTAL_QUESTIONS
    /\ interviewState.outcome = "none"

\* C24 (as stated): awaitingAnswer is true exactly when the phase is
\* Interview, outcome is unset, no request is in flight, input is unlocked
\* and the answer options of the current turn are present.
C24_AwaitingIffIdle ==
    interviewState.awaitingAnswer <=>
        /\ phase = "INTERVIEW"
        /\ interviewState.outcome = "none"
        /\ inflight = << >>
        /\ ~isLoading
        /\ ~isAnswerLocked
        /\ answerOptions.present

\* the clamps have been applied to a scored delta
Clamped == probe.fn = "finalDelta"

\* C25: with no contradiction flagged the committed delta respects the
\* per-key clamp whatever scoreAnswer returned: a good pick commits a delta
\* within [0.80, 3.50], an evasive pick a delta within [-3.50, -0.10].
C25_PerBucketClamp ==
    (Clamped /\ ~probe.contradiction) =>
        /\ probe.key = "good" => (probe.out >= 80 /\ probe.out <= 350)
        /\ probe.key = "evasive" => (probe.out >= -350 /\ probe.out <= -10)

C25_Witness ==
    /\ Clamped
    /\ ~probe.contradiction
    /\ probe.key = "good"
    /\ probe.scored = -150
    /\ probe.out = 80

\* the turn resolved last was flagged as a contradiction
LastFlagged ==
    /\ lastEvent = "chatOk"
    /\ history # << >>
    /\ history[Len(history)].contradiction

\* C26: when the backend flags a contradiction on a resolved turn, the
\* committed delta is negative and at most -0.80 for either key (the floor
\* is applied after the per-key clamp, so a good pick commits -0.80 and an
\* evasive pick a delta within [-3.50, -0.80]) and evasiveStreak is 0.
C26_ContradictionOverrides ==
    LastFlagged =>
        LET turn == history[Len(history)]
        IN  /\ turn.delta < 0
            /\ turn.delta <= -80
            /\ turn.key = "good" => turn.delta = -80
            /\ turn.key = "evasive" => turn.delta >= -350
            /\ interviewState.stockPrice =
                   Max(0, lastSnap.state.stockPrice + turn.delta)
            /\ interviewState.evasiveStreak = 0

C26_Witness ==
    /\ LastFlagged
    /\ history[Len(history)].key = "good"
    /\ history[Len(history)].delta = -80
    /\ lastSnap.state.evasiveStreak >= 1
    /\ interviewState.evasiveStreak = 0

\* C27 (as stated): for an object whose text is empty or not a string, whose
\* category is outside the enum or whose option entries are empty, the
\* normalised payload has non-empty text, a category of the enum and a
\* non-empty text for each such option.
C27_InvalidFieldsReplaced ==
    (Normalised /\ probe.raw.kind = "object") =>
        /\ ~probe.threw
        /\ probe.raw.text \in {"empty", "number"} => probe.out.text = "string"
        /\ probe.raw.category = "other" => probe.out.category \in Categories
        /\ probe.fn = "normalizeHostPayload" =>
              /\ probe.raw.options.good.words = 0 =>
                     probe.out.options.good.words > 0
              /\ probe.raw.options.evasive.words = 0 =>
                     probe.out.options.evasive.words > 0

\* the profile has both required fields
Complete(c) == c.name /\ c.mission

\* C28: the phase leaves Setup only through the submission of a profile whose
\* name and mission are both non-empty; a submission with an empty required
\* field leaves the phase at Setup and InterviewState as it was, sends no
\* request and has no session created; the server creates a session only
\* for an opening request that carries a complete profile.
C28_SetupLeftByValidProfile ==
    /\ [][(phase = "SETUP" /\ phase' # "SETUP") =>
              /\ lastEvent' = "submit"
              /\ Complete(company')
              /\ phase' = "INTRO"]_vars
    /\ [][(phase = "SETUP" /\ ~Complete(company')) =>
              /\ phase' = "SETUP"
              /\ interviewState' = interviewState
              /\ inflight' = inflight
              /\ messages' = messages
              /\ sessions' \subseteq sessions
              /\ issued' = issued]_vars
    /\ [][issued' # issued =>
              \E i \in DOMAIN inflight :
                  /\ inflight[i].kind = "init"
                  /\ inflight[i].stage = "sent"
                  /\ Complete(inflight[i].body.company)]_vars

C28_Witness ==
    /\ lastEvent = "submitRejected"
    /\ phase = "SETUP"
    /\ company.name
    /\ ~company.mission
    /\ loads = 2
    /\ issued >= 1

\* InterviewState holds the defaults startInterview seeds
Seeded(state) ==
    /\ state.stockPrice = STARTING_STOCK_PRICE
    /\ state.lowestPrice = STARTING_STOCK_PRICE
    /\ state.questionCount = 0
    /\ state.evasiveStreak = 0
    /\ state.outcome = "none"
    /\ ~state.awaitingAnswer

\* C29: when the Interview phase is entered InterviewState holds the seeded
\* defaults; from there awaitingAnswer becomes true and questionCount becomes
\* 1 only when the opening turn is received, and after a failed opening
\* awaitingAnswer is false and questionCount is 0.
C29_SeededThenArmed ==
    /\ [][(phase # "INTERVIEW" /\ phase' = "INTERVIEW") =>
              Seeded(interviewState')]_vars
    /\ [][(/\ phase' = "INTERVIEW"
           /\ Seeded(interviewState)
           /\ ~Seeded(interviewState')) =>
              /\ lastEvent' = "initOk"
              /\ interviewState'.awaitingAnswer
              /\ interviewState'.questionCount = 1
              /\ interviewState'.stockPrice = STARTING_STOCK_PRICE
              /\ interviewState'.lowestPrice = STARTING_STOCK_PRICE]_vars
    /\ [](lastEvent = "initFail" => Seeded(interviewState))

C29_Witness ==
    /\ lastEvent = "initOk"
    /\ phase = "INTERVIEW"
    /\ Seeded(lastSnap.state)
    /\ interviewState.awaitingAnswer
    /\ interviewState.questionCount = 1
    /\ tutorialPlayed

\* a turn-resolution request is out and no reply, good or bad, has come back
Unanswered ==
    /\ ChatInFlight # {}
    /\ \A i \in ChatInFlight : inflight[i].stage = "sent"

\* C31: while a turn-resolution request has neither succeeded nor failed,
\* awaitingAnswer is false and input is locked and loading; no step that
\* happens before a reply arrives ends the wait or changes stockPrice,
\* questionCount, outcome or the phase.
C31_LockedWhilePending ==
    /\ [](ChatInFlight # {} =>
              /\ ~interviewState.awaitingAnswer
              /\ isAnswerLocked
              /\ isLoading)
    /\ [][Unanswered =>
              /\ Len(inflight') = Len(inflight)
              /\ interviewState' = interviewState
              /\ phase' = phase
              /\ messages' = messages
              /\ isAnswerLocked'
              /\ isLoading']_vars
    /\ [][(ChatInFlight # {} /\ ChatInFlight' = {}) =>
              /\ lastEvent' \in {"chatOk", "chatFail"}
              /\ \E i \in ChatInFlight : inflight[i].stage = "replied"]_vars

C31_Witness ==
    /\ Unanswered
    /\ lastEvent = "serverRestart"
    /\ clicks >= 1
    /\ Resolved >= 1
    /\ isAnswerLocked

\* POST /api/init answers request i in this step
InitAnswered(i) ==
    /\ i \in DOMAIN inflight
    /\ inflight[i].kind = "init"
    /\ inflight[i].stage = "sent"
    /\ lastEvent' = "serverInit"
    /\ i \in DOMAIN inflight'
    /\ inflight'[i].stage = "replied"

\* C32: a session id returned by a successful /api/init is in the session
\* store; no step of the running process removes an id from the store; and a
\* /api/chat request whose id is in the store is never answered 404.
C32_SessionsKept ==
    /\ [][\A i \in DOMAIN inflight :
              (InitAnswered(i) /\ inflight'[i].status = 200) =>
                  /\ inflight'[i].payload.sessionId # 0
                  /\ inflight'[i].payload.sessionId \notin sessions
                  /\ inflight'[i].payload.sessionId \in sessions']_vars
    /\ [][lastEvent' # "serverRestart" => sessions \subseteq sessions']_vars
    /\ [][\A i \in DOMAIN inflight :
              (ChatAnswered(i) /\ inflight[i].body.sessionId \in sessions) =>
                  inflight'[i].status # 404]_vars

C32_Witness ==
    /\ inflight # << >>
    /\ inflight[1].kind = "chat"
    /\ inflight[1].stage = "replied"
    /\ inflight[1].status = 200
    /\ inflight[1].body.sessionId = 1
    /\ issued = 2
    /\ sessions = {1, 2}

\* C33: the phase is Summary if and only if outcome is set; while outcome is
\* unset the phase is Setup, Intro or Interview.
C33_SummaryIffOutcome ==
    /\ (phase = "SUMMARY") <=> (interviewState.outcome \in {"success", "failure"})
    /\ interviewState.outcome \in {"none", "success", "failure"}
    /\ interviewState.outcome = "none" => phase \in {"SETUP", "INTRO", "INTERVIEW"}

C33_Witness ==
    /\ phase = "SUMMARY"
    /\ interviewState.outcome = "success"
    /\ lastEvent = "chatOk"
    /\ ~interviewState.awaitingAnswer
    /\ loads = 2

\* the sum of the first n committed deltas
RECURSIVE SumDeltas(_)
SumDeltas(n) == IF n = 0 THEN 0 ELSE SumDeltas(n - 1) + history[n].delta

\* C34: the deltas committed to stockPrice are those of the resolved turns:
\* their number is questionCount - 1 while outcome is unset and a turn has
\* been armed, and maxQuestions once outcome is success; stockPrice is the
\* start price plus their sum; a failed resolution or a rejected selection
\* commits nothing.
C34_CommittedCount ==
    /\ [](/\ interviewState.stockPrice =
                 STARTING_STOCK_PRICE + SumDeltas(Len(history))
          /\ (interviewState.outcome = "none"
              /\ interviewState.questionCount >= 1) =>
                 Resolved = interviewState.questionCount - 1
          /\ interviewState.outcome = "success" =>
                 Resolved = interviewState.maxQuestions
          /\ lastEvent = "chatFail" =>
                 /\ Resolved = lastSnap.committed
                 /\ interviewState.stockPrice = lastSnap.state.stockPrice)
    /\ [][(phase = "INTERVIEW" /\ ~CanSelect /\ lastEvent' = lastEvent
           /\ inflight' = inflight) =>
              /\ history' = history
              /\ interviewState' = interviewState]_vars

C34_Witness ==
    /\ lastEvent = "chatFail"
    /\ Resolved = 2
    /\ interviewState.questionCount = 3
    /\ interviewState.stockPrice # STARTING_STOCK_PRICE
    /\ CountTag(messages, "error") = 1

C36_PriceRange ==
    Pricing =>
        /\ probe.state.stockPrice >= STARTING_STOCK_PRICE - 350 * probe.turns
        /\ probe.state.stockPrice <= STARTING_STOCK_PRICE + 350 * probe.turns
        /\ probe.state.stockPrice >= 8600
        /\ probe.state.stockPrice <= 11400
        /\ probe.state.stockPrice = probe.nextPrice
        /\ probe.nextPrice > 0

C36_Witness ==
    /\ Pricing
    /\ probe.turns = TOTAL_QUESTIONS
    /\ probe.state.stockPrice = 8600
    /\ probe.state.lowestPrice = 8600

Rank(p) ==
    CASE p = "SETUP" -> 0
      [] p = "INTRO" -> 1
      [] p = "INTERVIEW" -> 2
      [] p = "SUMMARY" -> 3

\* C38 (as stated): every change of phase moves it to the next phase of the
\* order Setup, Intro, Interview, Summary, and the opening request is sent
\* only once the phase is Interview.
C38_PhasesOnlyAdvance ==
    /\ [][phase' # phase => Rank(phase') = Rank(phase) + 1]_vars
    /\ [][openings' > openings => phase' = "INTERVIEW"]_vars

\* C38 (amended): every change of phase moves it to the next phase of the
\* order Setup, Intro, Interview, Summary, except the full reset, which
\* takes Summary back to Setup; the opening request is sent only once the
\* phase is Interview.
C38_PhasesAdvanceUntilReset ==
    /\ [][phase' # phase =>
              \/ Rank(phase') = Rank(phase) + 1
              \/ phase = "SUMMARY" /\ FullReset]_vars
    /\ [][openings' > openings => phase' = "INTERVIEW"]_vars
    /\ [](Cardinality({ i \in DOMAIN inflight : inflight[i].kind = "init" }) > 0 =>
              phase = "INTERVIEW")

C38_Witness ==
    /\ phase = "INTERVIEW"
    /\ loads = 2
    /\ openings = 1
    /\ lastEvent = "introTimer"

\* C39 (as stated): when every request is answered successfully with answer
\* options and the player selects an option whenever one can be selected, an
\* interview that has started reaches the phase Summary with outcome set.
C39_ReachesSummary ==
    (phase = "INTERVIEW") ~>
        (phase = "SUMMARY" /\ interviewState.outcome # "none")

\* C40 (as stated): normalizeOptionText applied to its own result, with the
\* same fallback, returns that result.
C40_Idempotent ==
    probe.fn = "normalizeOptionText" =>
        normalizeOptionText(probe.out, probe.fallback) = probe.out

====
